---- MODULE Spec2Model ----
(***************************************************************************)
(* A model of the OpenAI mock handlers of ai-testing-hono:                 *)
(*   test/streaming-mocks.js  createStreamChunk, createStreamingOpenAIMock *)
(*   test/dynamic-mocks.js    createDynamicOpenAIMock                      *)
(*                                                                         *)
(* JavaScript strings are sequences of one-character strings, so that      *)
(* toLowerCase, includes and split are computed and not assumed.           *)
(* JavaScript values are tagged records; a JavaScript object is the        *)
(* sequence of its <<key, value>> properties in the order they were        *)
(* defined, and Object.entries reorders it as OrdinaryOwnPropertyKeys      *)
(* does.  Generated ids and the `created` timestamp are left out.          *)
(***************************************************************************)
EXTENDS Integers, Sequences, FiniteSets, TLC

VARIABLES handler, body, reply, em, other, app, run, env

vars == <<handler, body, reply, em, other, app, run, env>>

---------------------------------------------------------------------------
(* Bounds of the explored input space *)
MaxEntries == 2
MaxPromptLen == 2
MaxContentLen == 3

---------------------------------------------------------------------------
(* String literals of the source *)
K_type == <<"t", "y", "p", "e">>
K_content == <<"c", "o", "n", "t", "e", "n", "t">>
K_tool_name == <<"t", "o", "o", "l", "_", "n", "a", "m", "e">>
K_tool_args == <<"t", "o", "o", "l", "_", "a", "r", "g", "s">>
K_final_response == <<"f", "i", "n", "a", "l", "_", "r", "e", "s", "p", "o", "n", "s", "e">>
K_error == <<"e", "r", "r", "o", "r">>
K_location == <<"l", "o", "c", "a", "t", "i", "o", "n">>
K_name == <<"n", "a", "m", "e">>
K_age == <<"a", "g", "e">>
S_text == <<"t", "e", "x", "t">>
S_tool_call == <<"t", "o", "o", "l", "_", "c", "a", "l", "l">>
S_getWeather == <<"g", "e", "t", "W", "e", "a", "t", "h", "e", "r">>
S_SanFranciscoCA == <<"S", "a", "n", " ", "F", "r", "a", "n", "c", "i", "s", "c", "o", ",", " ", "C", "A">>
S_weather == <<"w", "e", "a", "t", "h", "e", "r">>
S_WeatherFinal == <<"T", "h", "e", " ", "w", "e", "a", "t", "h", "e", "r", " ", "i", "n", " ", "S", "a", "n", " ", "F", "r", "a", "n", "c", "i", "s", "c", "o", " ", "i", "s", " ", "c", "u", "r", "r", "e", "n", "t", "l", "y", " ", "7", "2", "F", " ", "a", "n", "d", " ", "s", "u", "n", "n", "y">>
S_WeatherPrompt == <<"W", "h", "a", "t", " ", "i", "s", " ", "t", "h", "e", " ", "w", "e", "a", "t", "h", "e", "r", " ", "l", "i", "k", "e", " ", "t", "o", "d", "a", "y", "?">>
S_Sorry == <<"S", "o", "r", "r", "y", ",", " ", "I", " ", "c", "a", "n", "n", "o", "t", " ", "h", "e", "l", "p", " ", "w", "i", "t", "h", " ", "t", "h", "a", "t", ".">>
S_NoMock == <<"N", "o", " ", "m", "o", "c", "k", " ", "c", "o", "n", "f", "i", "g", "u", "r", "e", "d">>
S_NoMockPrompt == <<"N", "o", " ", "m", "o", "c", "k", " ", "c", "o", "n", "f", "i", "g", "u", "r", "e", "d", " ", "f", "o", "r", " ", "t", "h", "i", "s", " ", "p", "r", "o", "m", "p", "t">>
S_Luna == <<"L", "u", "n", "a", " ", "M", "a", "r", "t", "i", "n", "e", "z">>
S_user == <<"u", "s", "e", "r">>
S_system == <<"s", "y", "s", "t", "e", "m">>
S_stop == <<"s", "t", "o", "p">>
S_tool_calls == <<"t", "o", "o", "l", "_", "c", "a", "l", "l", "s">>

---------------------------------------------------------------------------
(* JavaScript values *)
Undef == [t |-> "undefined", s |-> <<>>, n |-> 0, o |-> <<>>]
Null == [t |-> "null", s |-> <<>>, n |-> 0, o |-> <<>>]
Str(chars) == [t |-> "string", s |-> chars, n |-> 0, o |-> <<>>]
Num(k) == [t |-> "number", s |-> <<>>, n |-> k, o |-> <<>>]
Obj(props) == [t |-> "object", s |-> <<>>, n |-> 0, o |-> props]

(* Truthiness of a value, as `if (content)` and `x || ''` use it *)
Truthy(v) ==
    CASE v.t = "undefined" -> FALSE
      [] v.t = "null" -> FALSE
      [] v.t = "string" -> Len(v.s) > 0
      [] v.t = "number" -> v.n # 0
      [] OTHER -> TRUE

---------------------------------------------------------------------------
(* String.prototype.toLowerCase *)
UpperCase == <<"A", "B", "C", "D", "E", "F", "G", "H", "I", "J", "K", "L", "M", "N", "O", "P", "Q", "R", "S", "T", "U", "V", "W", "X", "Y", "Z">>
LowerCase == <<"a", "b", "c", "d", "e", "f", "g", "h", "i", "j", "k", "l", "m", "n", "o", "p", "q", "r", "s", "t", "u", "v", "w", "x", "y", "z">>

ToLowerChar(c) ==
    IF \E i \in 1..Len(UpperCase) : UpperCase[i] = c
    THEN LowerCase[CHOOSE i \in 1..Len(UpperCase) : UpperCase[i] = c]
    ELSE c

toLowerCase(str) == [i \in 1..Len(str) |-> ToLowerChar(str[i])]

(* String.prototype.includes: searchString occurs at some position *)
includes(str, searchString) ==
    \E i \in 0..(Len(str) - Len(searchString)) :
        SubSeq(str, i + 1, i + Len(searchString)) = searchString

(* String.prototype.split(' '): cut at every single space; the pieces   *)
(* between two adjacent spaces, before a leading space and after a      *)
(* trailing space are empty strings, and ''.split(' ') is ['']          *)
RECURSIVE SplitFrom(_, _)
SplitFrom(str, piece) ==
    IF str = <<>> THEN <<piece>>
    ELSE IF Head(str) = " " THEN <<piece>> \o SplitFrom(Tail(str), <<>>)
    ELSE SplitFrom(Tail(str), Append(piece, Head(str)))

(* variant: split(/ +/), a run of spaces cuts once *)
RECURSIVE SplitRunsFrom(_, _)
SplitRunsFrom(str, piece) ==
    IF str = <<>> THEN <<piece>>
    ELSE IF Head(str) = " "
         THEN (IF Tail(str) # <<>> /\ Head(Tail(str)) = " "
               THEN SplitRunsFrom(Tail(str), piece)
               ELSE <<piece>> \o SplitRunsFrom(Tail(str), <<>>))
         ELSE SplitRunsFrom(Tail(str), Append(piece, Head(str)))

split_Runs(str) == SplitRunsFrom(str, <<>>)

split(str) == SplitFrom(str, <<>>)

---------------------------------------------------------------------------
(* Objects: property lookup and enumeration order *)
HasOwn(props, key) == \E i \in 1..Len(props) : props[i][1] = key

Get(props, key) ==
    IF HasOwn(props, key)
    THEN props[CHOOSE i \in 1..Len(props) : props[i][1] = key][2]
    ELSE Undef

Digits == <<"0", "1", "2", "3", "4", "5", "6", "7", "8", "9">>
IsDigit(c) == \E d \in 1..10 : Digits[d] = c
DigitValue(c) == (CHOOSE d \in 1..10 : Digits[d] = c) - 1

(* order of two decimal strings of the same length *)
RECURSIVE DigitsLess(_, _)
DigitsLess(x, y) ==
    IF x = <<>> THEN FALSE
    ELSE IF Head(x) # Head(y) THEN DigitValue(Head(x)) < DigitValue(Head(y))
    ELSE DigitsLess(Tail(x), Tail(y))

(* numeric order of two canonical decimal strings *)
IndexLess(x, y) == Len(x) < Len(y) \/ (Len(x) = Len(y) /\ DigitsLess(x, y))

(* 2^32 - 2, the largest array index *)
MaxArrayIndex == <<"4", "2", "9", "4", "9", "6", "7", "2", "9", "4">>

(* A key is an array index when it is the canonical decimal form of an *)
(* integer in 0 .. 2^32 - 2                                            *)
IsArrayIndex(key) ==
    /\ Len(key) > 0
    /\ \A i \in 1..Len(key) : IsDigit(key[i])
    /\ (Len(key) > 1 => key[1] # "0")
    /\ ~IndexLess(MaxArrayIndex, key)

RECURSIVE SelectProps(_, _)
SelectProps(props, wantIndex) ==
    IF props = <<>> THEN <<>>
    ELSE IF IsArrayIndex(Head(props)[1]) = wantIndex
         THEN <<Head(props)>> \o SelectProps(Tail(props), wantIndex)
         ELSE SelectProps(Tail(props), wantIndex)

RECURSIVE InsertByIndex(_, _)
InsertByIndex(sorted, prop) ==
    IF sorted = <<>> THEN <<prop>>
    ELSE IF IndexLess(prop[1], Head(sorted)[1])
         THEN <<prop>> \o sorted
         ELSE <<Head(sorted)>> \o InsertByIndex(Tail(sorted), prop)

RECURSIVE SortByIndex(_)
SortByIndex(props) ==
    IF props = <<>> THEN <<>>
    ELSE InsertByIndex(SortByIndex(Tail(props)), Head(props))

(* Object.entries: array-index keys in ascending numeric order first, *)
(* then the other string keys in the order they were defined          *)
ObjectEntries(props) ==
    SortByIndex(SelectProps(props, TRUE)) \o SelectProps(props, FALSE)

---------------------------------------------------------------------------
(* JSON.stringify *)
(* variant: the characters of a string are copied without escaping *)
Escape_Raw(str) == str

RECURSIVE Escape(_)
Escape(str) ==
    IF str = <<>> THEN <<>>
    ELSE (IF Head(str) \in {"\"", "\\"} THEN <<"\\", Head(str)>> ELSE <<Head(str)>>)
         \o Escape(Tail(str))

Quote(str) == <<"\"">> \o Escape(str) \o <<"\"">>

RECURSIVE NumToStr(_)
NumToStr(k) ==
    IF k < 10 THEN <<Digits[k + 1]>>
    ELSE NumToStr(k \div 10) \o <<Digits[(k % 10) + 1]>>

RECURSIVE JSONText(_)
RECURSIVE JSONMembers(_, _)
(* the members of an object; a property whose value is undefined is omitted *)
JSONMembers(entries, first) ==
    IF entries = <<>> THEN <<>>
    ELSE IF Head(entries)[2].t = "undefined" THEN JSONMembers(Tail(entries), first)
    ELSE (IF first THEN <<>> ELSE <<",">>)
         \o Quote(Head(entries)[1]) \o <<":">> \o JSONText(Head(entries)[2])
         \o JSONMembers(Tail(entries), FALSE)

JSONText(v) ==
    CASE v.t = "string" -> Quote(v.s)
      [] v.t = "number" -> NumToStr(v.n)
      [] v.t = "object" -> <<"{">> \o JSONMembers(ObjectEntries(v.o), TRUE) \o <<"}">>
      [] OTHER -> <<"n", "u", "l", "l">>

(* JSON.stringify(undefined) is undefined, not a string *)
JSONStringify(v) == IF v.t = "undefined" THEN Undef ELSE Str(JSONText(v))

---------------------------------------------------------------------------
(* test/streaming-mocks.js: createStreamChunk.  A chunk is kept as the   *)
(* object that is serialised into the frame `data: <json>\n\n`           *)
NullToolCall == [t |-> "null", name |-> Undef, arguments |-> Undef]
ToolCall(name, arguments) == [t |-> "object", name |-> name, arguments |-> arguments]

(* variant: finish_reason is 'stop' whatever isLast is *)
createStreamChunk_AlwaysStop(content, isLast, toolCall) ==
    [kind |-> "data",
     content |-> IF Truthy(content) THEN content ELSE Undef,
     tool_calls |-> IF toolCall.t # "null" THEN <<toolCall>> ELSE <<>>,
     finish_reason |-> Str(S_stop)]

createStreamChunk(content, isLast, toolCall) ==
    [kind |-> "data",
     content |-> IF Truthy(content) THEN content ELSE Undef,
     tool_calls |-> IF toolCall.t # "null" THEN <<toolCall>> ELSE <<>>,
     finish_reason |-> IF isLast THEN Str(S_stop) ELSE Null]

(* the frame 'data: [DONE]\n\n' *)
DoneSentinel ==
    [kind |-> "sentinel", content |-> Undef, tool_calls |-> <<>>, finish_reason |-> Undef]

---------------------------------------------------------------------------
(* The request handlers *)

(* body.messages.find(msg => msg.role === 'user')?.content || '' *)
FindUser(messages) ==
    IF \E i \in 1..Len(messages) : messages[i].role = S_user
    THEN Str(messages[CHOOSE i \in 1..Len(messages) :
                        /\ messages[i].role = S_user
                        /\ \A j \in 1..(i - 1) : messages[j].role # S_user].content)
    ELSE Undef

UserMessage(b) ==
    IF Truthy(FindUser(b.messages)) THEN FindUser(b.messages).s ELSE <<>>

(* variant: receiver and argument of includes swapped *)
Matches_Swapped(userMessage, pattern) ==
    includes(toLowerCase(pattern), toLowerCase(userMessage))

(* userMessage.toLowerCase().includes(pattern.toLowerCase()) *)
Matches(userMessage, pattern) ==
    includes(toLowerCase(userMessage), toLowerCase(pattern))

TypeOf(response) == IF response.t = "object" THEN Get(response.o, K_type) ELSE Undef

(* sink is the state of the ReadableStream the emitter writes to *)
NoEmission ==
    [pc |-> "none", response |-> Undef, words |-> <<>>, i |-> 0, queue |-> <<>>,
     sink |-> "readable"]
NoReply == [kind |-> "none", status |-> 0, arguments |-> Undef, finish_reason |-> Undef]
RaisedReply == [kind |-> "raise", status |-> 0, arguments |-> Undef, finish_reason |-> Undef]
StreamReply == [kind |-> "stream", status |-> 200, arguments |-> Undef, finish_reason |-> Undef]
JsonReply(arguments) ==
    [kind |-> "json", status |-> 200, arguments |-> arguments,
     finish_reason |-> Str(S_tool_calls)]

(* start(controller) raises: its promise is rejected, and the stream is *)
(* errored with the reason only if it is still readable                 *)
Rejected(e) ==
    [e EXCEPT !.pc = "errored",
              !.sink = IF e.sink = "readable" THEN "errored" ELSE e.sink]

(* variant: the first word is enqueued without its trailing space *)
WordLoop_NoSpace(e, content) ==
    IF content.t # "string" \/ e.sink # "readable"
    THEN Rejected(e)
    ELSE LET words == split(content.s) IN
         [e EXCEPT !.pc = "delay_word", !.words = words, !.i = 1,
                   !.queue = Append(e.queue,
                       createStreamChunk(Str(words[1]), FALSE, NullToolCall))]

(* the word loop up to its first `await delay(100)`: one chunk is enqueued; *)
(* split raises on a content that is no string, and controller.enqueue     *)
(* raises when the stream is no longer readable                            *)
WordLoop(e, content) ==
    IF content.t # "string" \/ e.sink # "readable"
    THEN Rejected(e)
    ELSE LET words == split(content.s) IN
         [e EXCEPT !.pc = "delay_word", !.words = words, !.i = 1,
                   !.queue = Append(e.queue,
                       createStreamChunk(Str(words[1] \o <<" ">>), FALSE, NullToolCall))]

(* the next iteration of the word loop, up to its `await delay(100)` *)
EnqueueWord(e) ==
    IF e.sink # "readable" THEN Rejected(e)
    ELSE [e EXCEPT
            !.i = e.i + 1,
            !.queue = Append(e.queue,
                createStreamChunk(Str(e.words[e.i + 1] \o <<" ">>), FALSE, NullToolCall))]

(* variant: start returns after the loop without writing the final frames *)
EnqueueFinal_Returns(e) == [e EXCEPT !.pc = "returned"]

(* after the loop: the final chunk, 'data: [DONE]', controller.close() *)
EnqueueFinal(e) ==
    IF e.sink # "readable" THEN Rejected(e)
    ELSE [e EXCEPT
            !.pc = "closed",
            !.sink = "closed",
            !.queue = e.queue \o <<createStreamChunk(Str(<<>>), TRUE, NullToolCall),
                                   DoneSentinel>>]

(* variant: the text branch also enqueues a tool-call chunk first *)
StartText_WithToolCall(response) ==
    WordLoop([NoEmission EXCEPT
                !.response = response,
                !.queue = <<createStreamChunk(Null, FALSE,
                                ToolCall(Get(response.o, K_tool_name),
                                         JSONStringify(Get(response.o, K_tool_args))))>>],
             Get(response.o, K_content))

(* start(controller) of the text stream, run by the ReadableStream constructor *)
StartText(response) ==
    WordLoop([NoEmission EXCEPT !.response = response], Get(response.o, K_content))

(* variant: the tool-call chunk is not enqueued, the words start at once *)
StartToolCall_WordsOnly(response) ==
    WordLoop([NoEmission EXCEPT !.response = response], Get(response.o, K_final_response))

(* start(controller) of the tool-call stream, up to `await delay(200)` *)
StartToolCall(response) ==
    [NoEmission EXCEPT
        !.response = response,
        !.pc = "delay_tool",
        !.queue = <<createStreamChunk(Null, FALSE,
                        ToolCall(Get(response.o, K_tool_name),
                                 JSONStringify(Get(response.o, K_tool_args))))>>]

(* variant: the apology is streamed as a Text descriptor is *)
StartFallback_AsText == WordLoop(NoEmission, Str(S_Sorry))

(* start(controller) of the fallback stream: it has no await *)
StartFallback ==
    [NoEmission EXCEPT
        !.pc = "closed",
        !.sink = "closed",
        !.queue = <<createStreamChunk(Str(S_Sorry), TRUE, NullToolCall), DoneSentinel>>]

(* for (const [pattern, response] of Object.entries(streamResponses)):   *)
(* the emission started by the first iteration that returns              *)
RECURSIVE StreamingLoop(_, _)
StreamingLoop(entries, userMessage) ==
    IF entries = <<>> THEN StartFallback
    ELSE LET pattern == Head(entries)[1]
             response == Head(entries)[2]
         IN IF Matches(userMessage, pattern) /\ TypeOf(response) = Str(S_text)
            THEN StartText(response)
            ELSE IF Matches(userMessage, pattern) /\ TypeOf(response) = Str(S_tool_call)
            THEN StartToolCall(response)
            ELSE StreamingLoop(Tail(entries), userMessage)

(* createStreamingOpenAIMock(streamResponses): <<reply, emission>> *)
StreamingHandler(streamResponses, b) ==
    IF ~b.hasMessages THEN <<RaisedReply, NoEmission>>
    ELSE IF ~b.stream
    THEN <<JsonReply(JSONStringify(Obj(<<<<K_error, Str(S_NoMock)>>>>))), NoEmission>>
    ELSE <<StreamReply, StreamingLoop(ObjectEntries(streamResponses), UserMessage(b))>>

RECURSIVE DynamicLoop(_, _)
DynamicLoop(entries, userMessage) ==
    IF entries = <<>>
    THEN JsonReply(JSONStringify(Obj(<<<<K_error, Str(S_NoMockPrompt)>>>>)))
    ELSE IF Matches(userMessage, Head(entries)[1])
         THEN JsonReply(JSONStringify(Head(entries)[2]))
         ELSE DynamicLoop(Tail(entries), userMessage)

(* createDynamicOpenAIMock(mockResponses): <<reply, emission>> *)
DynamicHandler(mockResponses, b) ==
    IF ~b.hasMessages THEN <<RaisedReply, NoEmission>>
    ELSE <<DynamicLoop(ObjectEntries(mockResponses), UserMessage(b)), NoEmission>>

(* app.test.js, the copies of the two mocks:                             *)
(* body.prompt || body.messages?.find(msg => msg.role === 'user')?.content || '' *)
UserMessageOrPrompt(b) ==
    IF Truthy(b.prompt) THEN b.prompt.s
    ELSE IF ~b.hasMessages THEN <<>>
    ELSE UserMessage(b)

(* app.test.js: createStreamingOpenAIMock(streamResponses) *)
AppTestStreamingHandler(streamResponses, b) ==
    IF ~b.stream
    THEN <<JsonReply(JSONStringify(Obj(<<<<K_error, Str(S_NoMock)>>>>))), NoEmission>>
    ELSE <<StreamReply,
           StreamingLoop(ObjectEntries(streamResponses), UserMessageOrPrompt(b))>>

(* app.test.js: createDynamicOpenAIMock(mockResponses) *)
AppTestDynamicHandler(mockResponses, b) ==
    <<DynamicLoop(ObjectEntries(mockResponses), UserMessageOrPrompt(b)), NoEmission>>

(* the handler a server.use installed, applied to a request body *)
Handle(h, b) ==
    CASE h.file = "test" /\ h.mock = "streaming" -> StreamingHandler(h.responses, b)
      [] h.file = "test" /\ h.mock = "dynamic" -> DynamicHandler(h.responses, b)
      [] h.file = "app.test" /\ h.mock = "streaming" ->
            AppTestStreamingHandler(h.responses, b)
      [] OTHER -> AppTestDynamicHandler(h.responses, b)

---------------------------------------------------------------------------
(* Response descriptors as the tests write them *)
TextDescriptor(content) == Obj(<<<<K_type, Str(S_text)>>, <<K_content, content>>>>)

ToolCallDescriptor(name, args, final) ==
    Obj(<<<<K_type, Str(S_tool_call)>>, <<K_tool_name, name>>,
          <<K_tool_args, args>>, <<K_final_response, final>>>>)

StructuredDescriptor == Obj(<<<<K_name, Str(S_Luna)>>, <<K_age, Num(28)>>>>)

(* other structured descriptors: characters that JSON escapes, an       *)
(* integer-like key defined after another key, a nested object, a null  *)
(* field, no field at all                                               *)
StructuredDescriptors ==
    {StructuredDescriptor,
     Obj(<<<<K_name, Str(<<"\"", "a", "\\">>)>>>>),
     Obj(<<<<K_name, Str(<<>>)>>, <<<<"1">>, Num(0)>>>>),
     Obj(<<<<K_name, Obj(<<<<K_age, Num(10)>>>>)>>, <<K_age, Null>>>>),
     Obj(<<>>)}

WeatherArgs == Obj(<<<<K_location, Str(S_SanFranciscoCA)>>>>)

WeatherDescriptor == ToolCallDescriptor(Str(S_getWeather), WeatherArgs, Str(S_WeatherFinal))

WeatherMap == <<<<S_weather, WeatherDescriptor>>>>

---------------------------------------------------------------------------
(* The explored inputs *)
SeqsUpTo(S, k) == UNION {[1..j -> S] : j \in 0..k}

PromptChars == {"a", "A", "1"}
ContentChars == {"a", " "}

(* the empty pattern, a letter, an integer-like key, a mixed-case pair *)
Patterns == {<<>>, <<"a">>, <<"1">>, <<"A", "1">>}
Prompts == SeqsUpTo(PromptChars, MaxPromptLen) \cup {S_WeatherPrompt}
Contents == SeqsUpTo(ContentChars, MaxContentLen)

MatchDescriptors ==
    {TextDescriptor(Str(<<"a">>)),
     ToolCallDescriptor(Str(S_getWeather), WeatherArgs, Str(<<"a">>)),
     StructuredDescriptor}

EmitDescriptors ==
    {TextDescriptor(Str(c)) : c \in Contents}
    \cup {ToolCallDescriptor(Str(S_getWeather), WeatherArgs, Str(c)) : c \in Contents}
    \cup {TextDescriptor(Undef),
          ToolCallDescriptor(Str(S_getWeather), WeatherArgs, Undef)}

DistinctKeys(props) ==
    \A i, j \in 1..Len(props) : props[i][1] = props[j][1] => i = j

(* pattern maps: object literals of at most MaxEntries properties, the *)
(* maps of one entry that vary the content, and the weather scenario   *)
MatchMaps ==
    {m \in UNION {[1..k -> Patterns \X MatchDescriptors] : k \in 0..MaxEntries} :
        DistinctKeys(m)}

EmitMaps == {<<<<<<"a">>, d>>>> : d \in EmitDescriptors}

StructuredMaps == {<<<<<<"a">>, d>>>> : d \in StructuredDescriptors}

PatternMaps == MatchMaps \cup EmitMaps \cup StructuredMaps \cup {WeatherMap}

UserEntry(p) == [role |-> S_user, content |-> p]
SystemEntry(p) == [role |-> S_system, content |-> p]

MessageLists == {<<>>} \cup {<<[role |-> S_user, content |-> p]>> : p \in Prompts}

NoBody == [hasMessages |-> FALSE, messages |-> <<>>, stream |-> FALSE, prompt |-> Undef]

Bodies ==
    {[hasMessages |-> FALSE, messages |-> <<>>, stream |-> st, prompt |-> Undef] :
        st \in BOOLEAN}
    \cup {[hasMessages |-> TRUE, messages |-> m, stream |-> st, prompt |-> Undef] :
            m \in MessageLists, st \in BOOLEAN}

(* test is the test case in which server.use installed the handler *)
NoHandler == [file |-> "none", mock |-> "none", responses |-> <<>>, test |-> 0]

(* a second request in flight against the same handler *)
NoOther == [body |-> NoBody, reply |-> NoReply, em |-> NoEmission]

---------------------------------------------------------------------------
(* createApp(options) of the factory version of app.js.  A model is     *)
(* "mock" when the caller injected it and "openai" when it is the       *)
(* default openai('gpt-4o'); calls is the log of the models invoked     *)
K_message == <<"m", "e", "s", "s", "a", "g", "e">>
K_prompt == <<"p", "r", "o", "m", "p", "t">>
S_MessageRequired == <<"M", "e", "s", "s", "a", "g", "e", " ", "i", "s", " ", "r", "e", "q", "u", "i", "r", "e", "d">>
S_PromptRequired == <<"P", "r", "o", "m", "p", "t", " ", "i", "s", " ", "r", "e", "q", "u", "i", "r", "e", "d">>
S_AIUnavailable == <<"A", "I", " ", "s", "e", "r", "v", "i", "c", "e", " ", "u", "n", "a", "v", "a", "i", "l", "a", "b", "l", "e">>

(* a response: its status, the error of its JSON body (empty when the  *)
(* body is no error), and the model the handler invoked to build it    *)
NoResponse == [status |-> 0, error |-> <<>>, model |-> "none"]

(* a request: whether its body is JSON text at all, and the value of it *)
NoRequest == [endpoint |-> "none", parses |-> FALSE, json |-> Undef]

NoApp ==
    [state |-> "none", chatModel |-> "none", objectModel |-> "none",
     calls |-> <<>>, req |-> NoRequest, res |-> NoResponse]

(* options.chatModel || openai('gpt-4o') *)
ModelOrDefault(injected) == IF injected THEN "mock" ELSE "openai"

RequiredField(endpoint) == IF endpoint = "/generate-profile" THEN K_prompt ELSE K_message

RequiredError(endpoint) ==
    IF endpoint = "/generate-profile" THEN S_PromptRequired ELSE S_MessageRequired

(* the model an endpoint passes to streamText or generateObject *)
ModelOf(a, endpoint) ==
    IF endpoint = "/generate-profile" THEN a.objectModel ELSE a.chatModel

(* const { field } = await c.req.json(): undefined unless the value is *)
(* an object that has the field                                        *)
Destructure(json, field) == IF json.t = "object" THEN Get(json.o, field) ELSE Undef

(* variant: the required field is not validated *)
Respond_NoValidation(a, endpoint, req, outcome) ==
    IF ~req.parses \/ req.json.t \in {"null", "undefined"}
    THEN [status |-> 500, error |-> S_AIUnavailable, model |-> "none"]
    ELSE IF outcome = "throws"
    THEN [status |-> 500, error |-> S_AIUnavailable, model |-> ModelOf(a, endpoint)]
    ELSE [status |-> 200, error |-> <<>>, model |-> ModelOf(a, endpoint)]

(* the body of app.post(endpoint, async (c) => { try ... catch ... }):   *)
(* c.req.json() rejects on a body that is no JSON, destructuring raises  *)
(* on null, both inside the try; outcome is what the model's call does   *)
Respond(a, endpoint, req, outcome) ==
    IF ~req.parses \/ req.json.t \in {"null", "undefined"}
    THEN [status |-> 500, error |-> S_AIUnavailable, model |-> "none"]
    ELSE IF ~Truthy(Destructure(req.json, RequiredField(endpoint)))
    THEN [status |-> 400, error |-> RequiredError(endpoint), model |-> "none"]
    ELSE IF outcome = "throws"
    THEN [status |-> 500, error |-> S_AIUnavailable, model |-> ModelOf(a, endpoint)]
    ELSE [status |-> 200, error |-> <<>>, model |-> ModelOf(a, endpoint)]

(* process.env.NODE_ENV and global.testModel, as src/app.js reads them *)
NoEnv == [NODE_ENV |-> "undefined", testModel |-> "undefined"]

(* const getModel = () => { ... } *)
getModel(e) ==
    IF e.NODE_ENV = "test" /\ e.testModel # "undefined" THEN e.testModel ELSE "openai"

(* the model an endpoint of src/app.js passes to the AI SDK *)
AppJsModelOf(e, endpoint) == IF endpoint = "/chat" THEN "openai" ELSE getModel(e)

(* the handlers of src/app.js: c.req.json() and the destructuring are    *)
(* outside the try, so their exception reaches the framework's error     *)
(* handler, whose 500 response has no JSON body; only /chat validates    *)
(* its field                                                             *)
AppJsRespond(e, endpoint, req, outcome) ==
    IF ~req.parses \/ req.json.t \in {"null", "undefined"}
    THEN [status |-> 500, error |-> <<>>, model |-> "none"]
    ELSE IF endpoint = "/chat" /\ ~Truthy(Destructure(req.json, K_message))
    THEN [status |-> 400, error |-> S_MessageRequired, model |-> "none"]
    ELSE IF outcome = "throws"
    THEN [status |-> 500, error |-> S_AIUnavailable, model |-> AppJsModelOf(e, endpoint)]
    ELSE [status |-> 200, error |-> <<>>, model |-> AppJsModelOf(e, endpoint)]

(* the test run: the index of the running test case, and the earlier  *)
(* test cases that had installed a handler when their afterEach ran    *)
FirstTest == [test |-> 0, installed |-> {}]

---------------------------------------------------------------------------
(* The state machine: one installed handler, one request at a time *)
Init ==
    /\ handler = NoHandler
    /\ body = NoBody
    /\ reply = NoReply
    /\ em = NoEmission
    /\ other = NoOther
    /\ app = NoApp
    /\ run = FirstTest
    /\ env = NoEnv

Emitting == em.pc \in {"delay_tool", "delay_word"}

(* server.use(createStreamingOpenAIMock(m)) or server.use(createDynamicOpenAIMock(m)) *)
Use(file, mock, responses) ==
    /\ handler.mock = "none"
    /\ handler' = [file |-> file, mock |-> mock, responses |-> responses,
                   test |-> run.test]
    /\ UNCHANGED <<body, reply, em, other, app, run, env>>

(* a POST to /v1/chat/completions reaches the installed handler *)
Request(b) ==
    /\ handler.mock # "none"
    /\ reply.kind = "none"
    /\ body' = b
    /\ LET result == Handle(handler, b)
       IN /\ reply' = result[1]
          /\ em' = result[2]
    /\ UNCHANGED <<handler, other, app, run, env>>

(* delay(200) after the tool-call chunk elapses: the word loop starts *)
ToolDelayElapsed ==
    /\ em.pc = "delay_tool"
    /\ em' = WordLoop(em, Get(em.response.o, K_final_response))
    /\ UNCHANGED <<handler, body, reply, other, app, run, env>>

(* delay(100) elapses and a word is left: the next chunk is enqueued *)
NextWord ==
    /\ em.pc = "delay_word"
    /\ em.i < Len(em.words)
    /\ em' = EnqueueWord(em)
    /\ UNCHANGED <<handler, body, reply, other, app, run, env>>

(* variant: the emitter waits once more between the final chunk and [DONE] *)
Finish_MarkerThenDelay ==
    /\ em.pc = "delay_word"
    /\ em.i = Len(em.words)
    /\ em' = [em EXCEPT
                !.pc = "delay_done",
                !.queue = Append(em.queue, createStreamChunk(Str(<<>>), TRUE, NullToolCall))]
    /\ UNCHANGED <<handler, body, reply, other, app, run, env>>

(* delay(100) elapses after the last word: final chunk, [DONE], close *)
Finish ==
    /\ em.pc = "delay_word"
    /\ em.i = Len(em.words)
    /\ em' = EnqueueFinal(em)
    /\ UNCHANGED <<handler, body, reply, other, app, run, env>>

(* the test has read the reply to its end and goes on to its next request; *)
(* the handler keeps nothing from one request to the next                  *)
ResponseConsumed ==
    /\ reply.kind # "none"
    /\ ~Emitting
    /\ body' = NoBody
    /\ reply' = NoReply
    /\ em' = NoEmission
    /\ UNCHANGED <<handler, other, app, run, env>>

(* afterEach: server.resetHandlers(); the test's request and reply are gone *)
ResetHandlers ==
    /\ handler.mock # "none"
    /\ ~Emitting
    /\ handler' = NoHandler
    /\ body' = NoBody
    /\ reply' = NoReply
    /\ em' = NoEmission
    /\ UNCHANGED <<other, app, run, env>>

Next ==
    \/ \E mock \in {"streaming", "dynamic"}, m \in PatternMaps : Use("test", mock, m)
    \/ \E b \in Bodies : Request(b)
    \/ ToolDelayElapsed
    \/ NextWord
    \/ Finish
    \/ ResponseConsumed
    \/ ResetHandlers

Spec == Init /\ [][Next]_vars

---------------------------------------------------------------------------
(* The reader of a streamed reply cancels it while the emitter waits at *)
(* a delay: the stream stops being readable, the emitter is not told    *)
Cancel ==
    /\ Emitting
    /\ em.sink = "readable"
    /\ em' = [em EXCEPT !.sink = "cancelled"]
    /\ UNCHANGED <<handler, body, reply, other, app, run, env>>

SinkBodies ==
    {[hasMessages |-> TRUE, messages |-> <<UserEntry(p)>>, stream |-> TRUE,
      prompt |-> Undef] : p \in {<<>>, <<"a">>, S_WeatherPrompt}}

NextSink ==
    \/ \E m \in EmitMaps \cup {WeatherMap} : Use("test", "streaming", m)
    \/ \E b \in SinkBodies : Request(b)
    \/ ToolDelayElapsed
    \/ NextWord
    \/ Finish
    \/ Cancel
    \/ ResponseConsumed
    \/ ResetHandlers

SpecSink == Init /\ [][NextSink]_vars

---------------------------------------------------------------------------
(* Two requests in flight against one installed handler.  Each call of  *)
(* the handler has its own body, userMessage, stream, controller, words *)
(* and i; streamResponses is the one object both closures read          *)
OtherEmitting == other.em.pc \in {"delay_tool", "delay_word"}

(* variant: the handler drops its entries once it has answered *)
RequestOther_ClearsMap(b) ==
    /\ handler.mock # "none"
    /\ other.reply.kind = "none"
    /\ other' = [body |-> b, reply |-> Handle(handler, b)[1], em |-> Handle(handler, b)[2]]
    /\ handler' = [handler EXCEPT !.responses = <<>>]
    /\ UNCHANGED <<body, reply, em, app, run, env>>

(* a second POST reaches the handler, whatever the first one is doing *)
RequestOther(b) ==
    /\ handler.mock # "none"
    /\ other.reply.kind = "none"
    /\ other' = [body |-> b, reply |-> Handle(handler, b)[1], em |-> Handle(handler, b)[2]]
    /\ UNCHANGED <<handler, body, reply, em, app, run, env>>

ToolDelayElapsedOther ==
    /\ other.em.pc = "delay_tool"
    /\ other' = [other EXCEPT
                    !.em = WordLoop(other.em, Get(other.em.response.o, K_final_response))]
    /\ UNCHANGED <<handler, body, reply, em, app, run, env>>

(* variant: words and i are variables shared by the two emissions *)
NextWordOther_SharedWords ==
    /\ other.em.pc = "delay_word"
    /\ other.em.i < Len(other.em.words)
    /\ other' = [other EXCEPT
                    !.em = EnqueueWord([other.em EXCEPT !.words = em.words \o other.em.words])]
    /\ UNCHANGED <<handler, body, reply, em, app, run, env>>

NextWordOther ==
    /\ other.em.pc = "delay_word"
    /\ other.em.i < Len(other.em.words)
    /\ other' = [other EXCEPT !.em = EnqueueWord(other.em)]
    /\ UNCHANGED <<handler, body, reply, em, app, run, env>>

FinishOther ==
    /\ other.em.pc = "delay_word"
    /\ other.em.i = Len(other.em.words)
    /\ other' = [other EXCEPT !.em = EnqueueFinal(other.em)]
    /\ UNCHANGED <<handler, body, reply, em, app, run, env>>

ResponseConsumedOther ==
    /\ other.reply.kind # "none"
    /\ ~OtherEmitting
    /\ other' = NoOther
    /\ UNCHANGED <<handler, body, reply, em, app, run, env>>

(* a text and a tool-call entry, as multiMocks has two entries *)
ConcurrentMaps ==
    {<<<<<<"a">>, TextDescriptor(Str(c))>>,
       <<<<"1">>, ToolCallDescriptor(Str(S_getWeather), WeatherArgs, Str(c))>>>> :
        c \in Contents}

ConcurrentBodies ==
    {[hasMessages |-> TRUE, messages |-> <<UserEntry(p)>>, stream |-> st,
      prompt |-> Undef] : p \in {<<>>, <<"a">>, <<"1">>}, st \in BOOLEAN}

NextConcurrent ==
    \/ \E mock \in {"streaming", "dynamic"}, m \in ConcurrentMaps : Use("test", mock, m)
    \/ \E b \in ConcurrentBodies : Request(b)
    \/ \E b \in ConcurrentBodies : RequestOther(b)
    \/ ToolDelayElapsed
    \/ NextWord
    \/ Finish
    \/ ToolDelayElapsedOther
    \/ NextWordOther
    \/ FinishOther
    \/ ResponseConsumed
    \/ ResponseConsumedOther

SpecConcurrent == Init /\ [][NextConcurrent]_vars

---------------------------------------------------------------------------
(* The application built by createApp *)
MaxCalls == 2

Endpoints == {"/chat", "/chat-with-tools", "/generate-profile"}

FieldValues == {Str(<<>>), Str(<<"a">>), Null, Num(0)}

(* bodies that are no JSON, the JSON null and string, and objects with *)
(* none or one of the fields message and prompt                        *)
AppRequests ==
    {[endpoint |-> e, parses |-> FALSE, json |-> Undef] : e \in Endpoints}
    \cup {[endpoint |-> e, parses |-> TRUE, json |-> j] :
            e \in Endpoints,
            j \in {Null, Str(<<"a">>), Obj(<<>>)}
                  \cup {Obj(<<<<k, v>>>>) : k \in {K_message, K_prompt}, v \in FieldValues}}

(* createApp(options), options holding chatModel, objectModel, both or none *)
CreateApp(chatInjected, objectInjected) ==
    /\ app.state = "none"
    /\ app' = [NoApp EXCEPT
                 !.state = "ready",
                 !.chatModel = ModelOrDefault(chatInjected),
                 !.objectModel = ModelOrDefault(objectInjected)]
    /\ UNCHANGED <<handler, body, reply, em, other, run, env>>

(* app.request(endpoint, { method: 'POST', body }) *)
Post(req, outcome) ==
    /\ app.state = "ready"
    /\ Len(app.calls) < MaxCalls
    /\ LET res == Respond(app, req.endpoint, req, outcome) IN
       app' = [app EXCEPT
                 !.req = req,
                 !.res = res,
                 !.calls = IF res.model = "none" THEN app.calls
                           ELSE Append(app.calls,
                                       [endpoint |-> req.endpoint, model |-> res.model])]
    /\ UNCHANGED <<handler, body, reply, em, other, run, env>>

(* the test is over: the app it built is dropped *)
DropApp ==
    /\ app.state = "ready"
    /\ app' = NoApp
    /\ UNCHANGED <<handler, body, reply, em, other, run, env>>

NextApp ==
    \/ \E chatInjected, objectInjected \in BOOLEAN : CreateApp(chatInjected, objectInjected)
    \/ \E req \in AppRequests, outcome \in {"ok", "throws"} : Post(req, outcome)
    \/ DropApp

SpecApp == Init /\ [][NextApp]_vars

---------------------------------------------------------------------------
(* The application exported by src/app.js *)

(* import app from './app.js' *)
LoadAppJs ==
    /\ app.state = "none"
    /\ app' = [NoApp EXCEPT !.state = "app.js"]
    /\ UNCHANGED <<handler, body, reply, em, other, run, env>>

(* process.env.NODE_ENV = v *)
SetNodeEnv(v) ==
    /\ env' = [env EXCEPT !.NODE_ENV = v]
    /\ UNCHANGED <<handler, body, reply, em, other, app, run>>

(* global.testModel = m, or delete global.testModel *)
SetTestModel(m) ==
    /\ env' = [env EXCEPT !.testModel = m]
    /\ UNCHANGED <<handler, body, reply, em, other, app, run>>

(* app.request(endpoint, { method: 'POST', body }) *)
PostAppJs(req, outcome) ==
    /\ app.state = "app.js"
    /\ Len(app.calls) < MaxCalls
    /\ LET res == AppJsRespond(env, req.endpoint, req, outcome) IN
       app' = [app EXCEPT
                 !.req = req,
                 !.res = res,
                 !.calls = IF res.model = "none" THEN app.calls
                           ELSE Append(app.calls,
                                       [endpoint |-> req.endpoint, model |-> res.model])]
    /\ UNCHANGED <<handler, body, reply, em, other, run, env>>

AppJsRequests ==
    {r \in AppRequests :
        r.parses => r.json \in {Null, Obj(<<>>), Obj(<<<<K_message, Str(<<"a">>)>>>>),
                                Obj(<<<<K_prompt, Str(<<"a">>)>>>>)}}

NextAppJs ==
    \/ LoadAppJs
    \/ \E v \in {"undefined", "test", "production"} : SetNodeEnv(v)
    \/ \E m \in {"undefined", "mock"} : SetTestModel(m)
    \/ \E req \in AppJsRequests, outcome \in {"ok", "throws"} : PostAppJs(req, outcome)

SpecAppJs == Init /\ [][NextAppJs]_vars

---------------------------------------------------------------------------
(* Emissions whose stream stays readable; every delay(ms) is a timer,   *)
(* and a timer that stays pending elapses                               *)
NextLive ==
    \/ \E m \in EmitMaps \cup {WeatherMap} : Use("test", "streaming", m)
    \/ \E b \in SinkBodies : Request(b)
    \/ ToolDelayElapsed
    \/ NextWord
    \/ Finish
    \/ ResponseConsumed
    \/ ResetHandlers

SpecLive ==
    /\ Init
    /\ [][NextLive]_vars
    /\ WF_vars(ToolDelayElapsed)
    /\ WF_vars(NextWord)
    /\ WF_vars(Finish)

---------------------------------------------------------------------------
(* The request shapes: a flat prompt, a messages array with several     *)
(* entries, both or neither, sent to the handlers of test/ and to their *)
(* copies in app.test.js                                                *)
ShapePrompts == {<<>>, <<"a">>, <<"1">>}

ShapeMessageLists ==
    {<<>>}
    \cup {<<UserEntry(p)>> : p \in ShapePrompts}
    \cup {<<UserEntry(p), UserEntry(q)>> : p, q \in ShapePrompts}
    \cup {<<SystemEntry(<<"a">>), UserEntry(p)>> : p \in ShapePrompts}
    \cup {<<UserEntry(p), SystemEntry(<<"1">>)>> : p \in ShapePrompts}

ShapeFlatPrompts == {Undef} \cup {Str(p) : p \in ShapePrompts}

ShapeBodies ==
    {[hasMessages |-> FALSE, messages |-> <<>>, stream |-> st, prompt |-> pr] :
        st \in BOOLEAN, pr \in ShapeFlatPrompts}
    \cup {[hasMessages |-> TRUE, messages |-> m, stream |-> st, prompt |-> pr] :
            m \in ShapeMessageLists, st \in BOOLEAN, pr \in ShapeFlatPrompts}

(* the maps of at most one entry, and one whose content has two words *)
ShapeMaps ==
    {m \in MatchMaps : Len(m) <= 1}
    \cup {<<<<<<"a">>, TextDescriptor(Str(<<"a", " ", "a">>))>>>>}

NextShapes ==
    \/ \E file \in {"test", "app.test"}, mock \in {"streaming", "dynamic"},
          m \in ShapeMaps : Use(file, mock, m)
    \/ \E b \in ShapeBodies : Request(b)
    \/ ToolDelayElapsed
    \/ NextWord
    \/ Finish
    \/ ResponseConsumed
    \/ ResetHandlers

SpecShapes == Init /\ [][NextShapes]_vars

---------------------------------------------------------------------------
(* Descriptors that lack a field: a Text without content, a ToolCall     *)
(* without tool_name, a ToolCall without final_response; two requests    *)
(* to a handler whose map holds two of them                              *)
NoContent == TextDescriptor(Undef)
NoFinalResponse == ToolCallDescriptor(Str(S_getWeather), WeatherArgs, Undef)
NoToolName == {ToolCallDescriptor(Undef, WeatherArgs, Str(c)) : c \in Contents}

MalformedMaps ==
    {<<<<<<"a">>, d>>, <<<<"1">>, e>>>> : d \in {NoContent, NoFinalResponse}, e \in NoToolName}
    \cup {<<<<<<"a">>, NoContent>>, <<<<"1">>, NoFinalResponse>>>>}

MalformedBodies ==
    {[hasMessages |-> TRUE, messages |-> <<UserEntry(p)>>, stream |-> TRUE,
      prompt |-> Undef] : p \in {<<"a">>, <<"1">>}}

NextMalformed ==
    \/ \E m \in MalformedMaps : Use("test", "streaming", m)
    \/ \E b \in MalformedBodies : Request(b)
    \/ \E b \in MalformedBodies : RequestOther(b)
    \/ ToolDelayElapsed
    \/ NextWord
    \/ Finish
    \/ ToolDelayElapsedOther
    \/ NextWordOther
    \/ FinishOther
    \/ ResponseConsumed
    \/ ResponseConsumedOther

SpecMalformed == Init /\ [][NextMalformed]_vars

---------------------------------------------------------------------------
(* The test run: test cases one after the other, afterEach between them *)
MaxTests == 2

(* server.listen({ onUnhandledRequest: 'warn' }) *)
OnUnhandledRequest == "warn"

(* a request no handler matches: with 'error' the request fails with a *)
(* network error; with 'warn' and 'bypass' it is performed as it is,   *)
(* against the provider the URL names                                  *)
UnhandledReply(strategy) ==
    [kind |-> IF strategy = "error" THEN "network_error" ELSE "passthrough",
     status |-> 0, arguments |-> Undef, finish_reason |-> Undef]

UnhandledRequest(b) ==
    /\ handler.mock = "none"
    /\ reply.kind = "none"
    /\ body' = b
    /\ reply' = UnhandledReply(OnUnhandledRequest)
    /\ em' = NoEmission
    /\ UNCHANGED <<handler, other, app, run, env>>

(* variant: afterEach does not call server.resetHandlers() *)
AfterEach_KeepsHandlers ==
    /\ ~Emitting
    /\ run.test < MaxTests
    /\ handler' = handler
    /\ body' = NoBody
    /\ reply' = NoReply
    /\ em' = NoEmission
    /\ run' = [test |-> run.test + 1,
               installed |-> run.installed
                               \cup (IF handler.mock # "none" THEN {run.test} ELSE {})]
    /\ UNCHANGED <<other, app, env>>

(* a test case ends: afterEach(() => server.resetHandlers()), and the *)
(* next test case starts                                              *)
AfterEach ==
    /\ ~Emitting
    /\ run.test < MaxTests
    /\ handler' = NoHandler
    /\ body' = NoBody
    /\ reply' = NoReply
    /\ em' = NoEmission
    /\ run' = [test |-> run.test + 1,
               installed |-> run.installed
                               \cup (IF handler.mock # "none" THEN {run.test} ELSE {})]
    /\ UNCHANGED <<other, app, env>>

NextTests ==
    \/ \E mock \in {"streaming", "dynamic"}, m \in ShapeMaps : Use("test", mock, m)
    \/ \E b \in SinkBodies : Request(b)
    \/ \E b \in SinkBodies : UnhandledRequest(b)
    \/ ToolDelayElapsed
    \/ NextWord
    \/ Finish
    \/ ResponseConsumed
    \/ AfterEach

SpecTests == Init /\ [][NextTests]_vars

---------------------------------------------------------------------------
(* What the properties speak of, stated apart from the handlers' code *)

(* c and d are the same character up to letter case *)
SameLetter(c, d) ==
    \/ c = d
    \/ \E k \in 1..Len(UpperCase) : {c, d} = {UpperCase[k], LowerCase[k]}

(* pattern is a case-insensitive substring of prompt *)
ContainsIgnoringCase(prompt, pattern) ==
    \E off \in 0..(Len(prompt) - Len(pattern)) :
        \A k \in 1..Len(pattern) : SameLetter(prompt[off + k], pattern[k])

(* the prompt of a request that carries a messages array *)
PromptOf(b) ==
    IF \E i \in 1..Len(b.messages) : b.messages[i].role = S_user
    THEN (b.messages[CHOOSE i \in 1..Len(b.messages) : b.messages[i].role = S_user]).content
    ELSE <<>>

(* positions, in the order of insertion, of the entries that match *)
MatchingEntries(m, prompt) ==
    {i \in 1..Len(m) : ContainsIgnoringCase(prompt, m[i][1])}

Earliest(S) == CHOOSE i \in S : \A j \in S : i <= j

EarliestInserted(m, prompt) == m[Earliest(MatchingEntries(m, prompt))][2]

(* a streamed reply of createStreamingOpenAIMock is being or has been built *)
Streamed == handler.mock = "streaming" /\ reply.kind = "stream"

IsTextDelta(chunk) ==
    chunk.kind = "data" /\ chunk.content.t = "string" /\ chunk.finish_reason = Null

IsToolCallChunk(chunk) == chunk.kind = "data" /\ chunk.tool_calls # <<>>

IsFinishMarker(chunk) == chunk.kind = "data" /\ chunk.finish_reason = Str(S_stop)

Positions(queue, P(_)) == {i \in 1..Len(queue) : P(queue[i])}

(* the texts of the text-delta chunks of a queue, in emission order *)
RECURSIVE TextsOf(_)
TextsOf(queue) ==
    IF queue = <<>> THEN <<>>
    ELSE (IF IsTextDelta(Head(queue)) THEN <<Head(queue).content.s>> ELSE <<>>)
         \o TextsOf(Tail(queue))

RECURSIVE Concat(_)
Concat(strs) == IF strs = <<>> THEN <<>> ELSE Head(strs) \o Concat(Tail(strs))

(* the non-empty maximal runs of characters other than the space *)
RECURSIVE WordsFrom(_, _)
WordsFrom(str, word) ==
    IF str = <<>> THEN (IF word = <<>> THEN <<>> ELSE <<word>>)
    ELSE IF Head(str) = " "
         THEN (IF word = <<>> THEN <<>> ELSE <<word>>) \o WordsFrom(Tail(str), <<>>)
         ELSE WordsFrom(Tail(str), Append(word, Head(str)))

WordsOf(str) == WordsFrom(str, <<>>)

IsTextDescriptor(d) == d.t = "object" /\ Get(d.o, K_type) = Str(S_text)
IsToolCallDescriptor(d) == d.t = "object" /\ Get(d.o, K_type) = Str(S_tool_call)

(* the string a descriptor asks to stream word by word *)
StreamedField(d) ==
    IF IsTextDescriptor(d) THEN Get(d.o, K_content) ELSE Get(d.o, K_final_response)

(* the fallback (no descriptor), a Text with a string content, or a    *)
(* ToolCall with a string tool_name and a string final_response        *)
WellFormed(d) ==
    \/ d = Undef
    \/ IsTextDescriptor(d) /\ Get(d.o, K_content).t = "string"
    \/ /\ IsToolCallDescriptor(d)
       /\ Get(d.o, K_tool_name).t = "string"
       /\ Get(d.o, K_final_response).t = "string"

J_NoMockPrompt == <<"{", "\"", "e", "r", "r", "o", "r", "\"", ":", "\"", "N", "o", " ", "m", "o", "c", "k", " ", "c", "o", "n", "f", "i", "g", "u", "r", "e", "d", " ", "f", "o", "r", " ", "t", "h", "i", "s", " ", "p", "r", "o", "m", "p", "t", "\"", "}">>
J_WeatherArgs == <<"{", "\"", "l", "o", "c", "a", "t", "i", "o", "n", "\"", ":", "\"", "S", "a", "n", " ", "F", "r", "a", "n", "c", "i", "s", "c", "o", ",", " ", "C", "A", "\"", "}">>

---------------------------------------------------------------------------
(* C1: in createStreamingOpenAIMock, whenever a streamed request's prompt *)
(* contains at least one pattern, the reply is built from the descriptor  *)
(* of the earliest matching entry, whatever its variant; no matching      *)
(* entry is skipped for a later one or for the fallback.                  *)
C1_EarliestMatchAnyVariant ==
    (Streamed /\ MatchingEntries(handler.responses, PromptOf(body)) # {})
        => em.response = EarliestInserted(handler.responses, PromptOf(body))

(* C2: in createDynamicOpenAIMock, when the prompt contains several      *)
(* patterns the descriptor returned is that of the pattern inserted      *)
(* first, also for integer-like patterns inserted after other patterns.  *)
C2_InsertionOrderPriority ==
    (/\ handler.mock = "dynamic"
     /\ reply.kind = "json"
     /\ MatchingEntries(handler.responses, PromptOf(body)) # {})
        => reply.arguments
             = JSONStringify(EarliestInserted(handler.responses, PromptOf(body)))

(* C3: matching is total.  For a request with a prompt (the empty one    *)
(* included) and a map without matching entry (the empty one included),  *)
(* neither mock raises: the streaming mock answers 200 with a closed     *)
(* stream that carries 'Sorry, I cannot help with that.', the dynamic    *)
(* mock answers with {"error":"No mock configured for this prompt"}.     *)
C3_NoMatchDefaultReply ==
    (/\ reply.kind # "none"
     /\ body.hasMessages
     /\ MatchingEntries(handler.responses, PromptOf(body)) = {})
        => /\ reply.kind # "raise"
           /\ em.pc # "errored"
           /\ (handler.mock = "streaming" /\ body.stream)
                => /\ reply.kind = "stream"
                   /\ reply.status = 200
                   /\ em.pc = "closed"
                   /\ \E i \in 1..Len(em.queue) : em.queue[i].content = Str(S_Sorry)
           /\ handler.mock = "dynamic"
                => /\ reply.kind = "json"
                   /\ reply.arguments = Str(J_NoMockPrompt)

C3_Witness ==
    /\ Streamed
    /\ body.stream
    /\ Len(handler.responses) = 2
    /\ PromptOf(body) # <<>>
    /\ MatchingEntries(handler.responses, PromptOf(body)) = {}
    /\ em.pc = "closed"

---------------------------------------------------------------------------
(* C4: every streamed reply built from a well-formed Text or ToolCall    *)
(* descriptor or from the fallback holds at most one chunk with          *)
(* finish_reason 'stop' and one [DONE] sentinel, every other data chunk  *)
(* has finish_reason null, and once the stream is closed the finish      *)
(* chunk is the last chunk before the sentinel, which ends the sequence. *)
C4_OneFinishMarkerLast ==
    (Streamed /\ WellFormed(em.response))
        => LET q == em.queue
               fin == Positions(q, IsFinishMarker)
               sen == {i \in 1..Len(q) : q[i].kind = "sentinel"}
           IN /\ em.pc # "errored"
              /\ \A i \in 1..Len(q) :
                    (q[i].kind = "data" /\ i \notin fin) => q[i].finish_reason = Null
              /\ em.pc = "closed" => (fin = {Len(q) - 1} /\ sen = {Len(q)})
              /\ em.pc # "closed" => (fin = {} /\ sen = {})

C4_Witness ==
    /\ Streamed
    /\ IsToolCallDescriptor(em.response)
    /\ em.pc = "closed"
    /\ Len(em.queue) = 6

(* C5: for a matched ToolCall descriptor the chunk carrying tool_calls   *)
(* (tool_name and the JSON text of tool_args) is in the queue exactly    *)
(* once, as its first element, in every state of the emission, so that   *)
(* it precedes every text-delta chunk of final_response.                 *)
C5_ToolCallChunkFirst ==
    (Streamed /\ IsToolCallDescriptor(em.response))
        => LET q == em.queue IN
           /\ Positions(q, IsToolCallChunk) = {1}
           /\ Len(q[1].tool_calls) = 1
           /\ q[1].tool_calls[1].name = Get(em.response.o, K_tool_name)
           /\ Get(em.response.o, K_tool_args) = WeatherArgs
                => q[1].tool_calls[1].arguments = Str(J_WeatherArgs)
           /\ \A i \in Positions(q, IsTextDelta) : i > 1

C5_Witness ==
    /\ Streamed
    /\ IsToolCallDescriptor(em.response)
    /\ em.pc = "delay_word"
    /\ Cardinality(Positions(em.queue, IsTextDelta)) = 2

(* C6: for a matched Text descriptor no chunk carries tool_calls: the    *)
(* sequence is text-delta chunks, then the finish marker without text,   *)
(* then the sentinel; and a chunk that carries tool_calls has no content.*)
C6_TextOnlyTextDeltas ==
    Streamed
        => LET q == em.queue IN
           /\ IsTextDescriptor(em.response)
                => /\ Positions(q, IsToolCallChunk) = {}
                   /\ \A i \in 1..Len(q) :
                        \/ IsTextDelta(q[i]) /\ (em.pc = "closed" => i < Len(q) - 1)
                        \/ /\ IsFinishMarker(q[i])
                           /\ q[i].content = Undef
                           /\ i = Len(q) - 1
                        \/ q[i].kind = "sentinel" /\ i = Len(q)
           /\ \A i \in Positions(q, IsToolCallChunk) : q[i].content = Undef

C6_Witness ==
    /\ Streamed
    /\ IsTextDescriptor(em.response)
    /\ em.pc = "closed"
    /\ Cardinality(Positions(em.queue, IsTextDelta)) = 3

(* C7: round trip.  For a non-empty content or final_response, leading,  *)
(* trailing and consecutive spaces included, the delta.content of the    *)
(* text-delta chunks of the closed stream, concatenated in emission      *)
(* order, is the original string followed by exactly one space.          *)
C7_RoundTrip ==
    (/\ Streamed
     /\ em.pc = "closed"
     /\ em.response # Undef
     /\ StreamedField(em.response).s # <<>>)
        => Concat(TextsOf(em.queue)) = StreamedField(em.response).s \o <<" ">>

C7_Witness ==
    /\ Streamed
    /\ em.pc = "closed"
    /\ IsTextDescriptor(em.response)
    /\ StreamedField(em.response) = Str(<<" ", " ", "a">>)

(* C8: the text-delta chunks correspond one to one and in order to the   *)
(* whitespace-separated words of the content: each is a non-empty word   *)
(* followed by one space, also when the content has leading, trailing or *)
(* consecutive spaces.                                                   *)
C8_ChunksAreWords ==
    (Streamed /\ em.pc = "closed" /\ em.response # Undef)
        => LET words == WordsOf(StreamedField(em.response).s) IN
           TextsOf(em.queue) = [k \in 1..Len(words) |-> words[k] \o <<" ">>]

(* C9: for a matched Text descriptor whose content is the empty string   *)
(* the emission does not fail and has no text-delta chunk: the closed    *)
(* stream is the finish marker followed by the sentinel.                 *)
C9_EmptyContentNoTextDelta ==
    (Streamed /\ IsTextDescriptor(em.response) /\ StreamedField(em.response) = Str(<<>>))
        => /\ em.pc # "errored"
           /\ Positions(em.queue, IsTextDelta) = {}
           /\ em.pc = "closed"
                => em.queue = <<createStreamChunk(Str(<<>>), TRUE, NullToolCall), DoneSentinel>>

---------------------------------------------------------------------------
(* The weather scenario *)
WeatherChunkTexts ==
    <<<<"T", "h", "e", " ">>,
      <<"w", "e", "a", "t", "h", "e", "r", " ">>,
      <<"i", "n", " ">>,
      <<"S", "a", "n", " ">>,
      <<"F", "r", "a", "n", "c", "i", "s", "c", "o", " ">>,
      <<"i", "s", " ">>,
      <<"c", "u", "r", "r", "e", "n", "t", "l", "y", " ">>,
      <<"7", "2", "F", " ">>,
      <<"a", "n", "d", " ">>,
      <<"s", "u", "n", "n", "y", " ">>>>

WeatherRun ==
    /\ Streamed
    /\ handler.responses = WeatherMap
    /\ PromptOf(body) = S_WeatherPrompt
    /\ em.pc = "closed"

(* the closed stream is one tool-call chunk naming getWeather, then k   *)
(* text-delta chunks spelling the final response word by word, then one *)
(* finish marker with reason 'stop', then the sentinel                  *)
WeatherSequence(k) ==
    LET q == em.queue IN
    /\ Len(q) = k + 3
    /\ IsToolCallChunk(q[1])
    /\ q[1].tool_calls[1].name = Str(S_getWeather)
    /\ q[1].tool_calls[1].arguments = Str(J_WeatherArgs)
    /\ \A j \in 2..(k + 1) : IsTextDelta(q[j])
    /\ TextsOf(q) = WeatherChunkTexts
    /\ IsFinishMarker(q[k + 2])
    /\ Positions(q, IsFinishMarker) = {k + 2}
    /\ q[k + 3] = DoneSentinel

(* C10 as stated: the weather scenario emits exactly 9 text-delta chunks *)
C10_WeatherNineTextDeltas == WeatherRun => WeatherSequence(9)

(* C10, amended: the weather scenario emits one tool-call chunk naming   *)
(* getWeather, then exactly 10 text-delta chunks spelling the final      *)
(* response word by word, then one finish marker with reason 'stop'.     *)
C10_WeatherTenTextDeltas == WeatherRun => WeatherSequence(10)

C10_Witness == WeatherRun /\ Cardinality(Positions(em.queue, IsTextDelta)) = 10

---------------------------------------------------------------------------
(* a descriptor without `type`: the object a structured reply carries *)
IsStructured(d) == d.t = "object" /\ ~HasOwn(d.o, K_type)

(* C11: with stream false, the single JSON reply of                      *)
(* createStreamingOpenAIMock depends on the pattern map and the prompt:  *)
(* when the matched descriptor is structured the reply embeds it, and    *)
(* the error payload is returned only otherwise.                         *)
C11_NonStreamReplyEmbedsDescriptor ==
    (/\ handler.mock = "streaming"
     /\ reply.kind # "none"
     /\ body.hasMessages
     /\ ~body.stream
     /\ MatchingEntries(handler.responses, PromptOf(body)) # {}
     /\ IsStructured(EarliestInserted(handler.responses, PromptOf(body))))
        => /\ reply.kind = "json"
           /\ reply.arguments
                = JSONStringify(EarliestInserted(handler.responses, PromptOf(body)))

---------------------------------------------------------------------------
(* JSON.parse, as the caller of the mocked API applies it to the          *)
(* function arguments of a reply: strings, unsigned integers, null and    *)
(* objects, without insignificant white space                             *)
SyntaxError == [t |-> "SyntaxError", s |-> <<>>, n |-> 0, o |-> <<>>]
ParseFailed == [ok |-> FALSE, v |-> SyntaxError, next |-> 0]
Parsed(v, next) == [ok |-> TRUE, v |-> v, next |-> next]

(* the characters of a string literal, from position i to its closing quote *)
RECURSIVE ParseChars(_, _, _)
ParseChars(text, i, acc) ==
    IF i > Len(text) THEN ParseFailed
    ELSE IF text[i] = "\"" THEN Parsed(Str(acc), i + 1)
    ELSE IF text[i] = "\\"
         THEN (IF i + 1 <= Len(text) /\ text[i + 1] \in {"\"", "\\"}
               THEN ParseChars(text, i + 2, Append(acc, text[i + 1]))
               ELSE ParseFailed)
    ELSE ParseChars(text, i + 1, Append(acc, text[i]))

RECURSIVE ParseDigits(_, _, _)
ParseDigits(text, i, k) ==
    IF i <= Len(text) /\ IsDigit(text[i])
    THEN ParseDigits(text, i + 1, 10 * k + DigitValue(text[i]))
    ELSE Parsed(Num(k), i)

(* a later member with the same key replaces the value of the earlier one *)
SetProp(props, key, v) ==
    IF HasOwn(props, key)
    THEN [j \in 1..Len(props) |-> IF props[j][1] = key THEN <<key, v>> ELSE props[j]]
    ELSE Append(props, <<key, v>>)

RECURSIVE ParseValue(_, _)
RECURSIVE ParseMember(_, _, _)
ParseMember(text, i, props) ==
    IF i > Len(text) \/ text[i] # "\"" THEN ParseFailed
    ELSE LET key == ParseChars(text, i + 1, <<>>) IN
         IF ~key.ok \/ key.next > Len(text) \/ text[key.next] # ":" THEN ParseFailed
         ELSE LET val == ParseValue(text, key.next + 1) IN
              IF ~val.ok \/ val.next > Len(text) THEN ParseFailed
              ELSE IF text[val.next] = ","
                   THEN ParseMember(text, val.next + 1, SetProp(props, key.v.s, val.v))
              ELSE IF text[val.next] = "}"
                   THEN Parsed(Obj(SetProp(props, key.v.s, val.v)), val.next + 1)
              ELSE ParseFailed

ParseValue(text, i) ==
    IF i > Len(text) THEN ParseFailed
    ELSE IF text[i] = "\"" THEN ParseChars(text, i + 1, <<>>)
    ELSE IF IsDigit(text[i]) THEN ParseDigits(text, i, 0)
    ELSE IF text[i] = "{"
         THEN (IF i + 1 <= Len(text) /\ text[i + 1] = "}"
               THEN Parsed(Obj(<<>>), i + 2)
               ELSE ParseMember(text, i + 1, <<>>))
    ELSE IF i + 3 <= Len(text) /\ SubSeq(text, i, i + 3) = <<"n", "u", "l", "l">>
         THEN Parsed(Null, i + 4)
    ELSE ParseFailed

JSONParse(text) ==
    LET r == ParseValue(text, 1) IN
    IF r.ok /\ r.next = Len(text) + 1 THEN r.v ELSE SyntaxError

Keys(props) == {props[j][1] : j \in 1..Len(props)}

(* two values are equal field by field, whatever the order of the fields *)
RECURSIVE SameValue(_, _)
SameValue(v, w) ==
    /\ v.t = w.t
    /\ v.s = w.s
    /\ v.n = w.n
    /\ Keys(v.o) = Keys(w.o)
    /\ \A key \in Keys(v.o) : SameValue(Get(v.o, key), Get(w.o, key))

(* the descriptors of the entries whose pattern the prompt contains *)
MatchingDescriptors(m, prompt) == {m[i][2] : i \in MatchingEntries(m, prompt)}

(* C12: for every structured descriptor matched by                       *)
(* createDynamicOpenAIMock the reply is one non-streamed unit: status    *)
(* 200, no chunk is emitted, the finish reason is 'tool_calls' and not   *)
(* 'stop', and parsing the function arguments of the reply yields an     *)
(* object equal to the fields of the descriptor (name 'Luna Martinez',   *)
(* age 28 come back unchanged).                                          *)
C12_StructuredReplyRoundTrip ==
    (/\ handler.mock = "dynamic"
     /\ reply.kind # "none"
     /\ body.hasMessages
     /\ MatchingEntries(handler.responses, PromptOf(body)) # {}
     /\ \A d \in MatchingDescriptors(handler.responses, PromptOf(body)) : IsStructured(d))
        => /\ reply.kind = "json"
           /\ reply.status = 200
           /\ em = NoEmission
           /\ reply.finish_reason = Str(S_tool_calls)
           /\ reply.finish_reason # Str(S_stop)
           /\ reply.arguments.t = "string"
           /\ \E d \in MatchingDescriptors(handler.responses, PromptOf(body)) :
                 SameValue(JSONParse(reply.arguments.s), d)
           /\ StructuredDescriptor
                 \in MatchingDescriptors(handler.responses, PromptOf(body))
                => /\ Get(JSONParse(reply.arguments.s).o, K_name) = Str(S_Luna)
                   /\ Get(JSONParse(reply.arguments.s).o, K_age) = Num(28)

C12_Witness ==
    /\ handler.mock = "dynamic"
    /\ reply.kind = "json"
    /\ PromptOf(body) = <<"A", "a">>
    /\ handler.responses
         = <<<<<<"a">>, Obj(<<<<K_name, Str(<<"\"", "a", "\\">>)>>>>)>>>>
    /\ JSONParse(reply.arguments.s) = Obj(<<<<K_name, Str(<<"\"", "a", "\\">>)>>>>)

---------------------------------------------------------------------------
UserPositions(messages) == {i \in 1..Len(messages) : messages[i].role = S_user}

Latest(S) == CHOOSE i \in S : \A j \in S : j <= i

(* the request that carries nothing but one user entry with this prompt *)
SingleUserBody(b, prompt) ==
    [hasMessages |-> TRUE, messages |-> <<UserEntry(prompt)>>, stream |-> b.stream,
     prompt |-> Undef]

(* the reply and the selected descriptor are those of request b *)
AnsweredAs(b) ==
    /\ reply = Handle(handler, b)[1]
    /\ em.response = Handle(handler, b)[2].response

(* C13: when the messages array holds several user-role entries the     *)
(* prompt that is pattern-matched is the content of the last of them,   *)
(* in both mocks: the request is answered as the request that carries   *)
(* that last entry alone.                                               *)
C13_LastUserEntryUsed ==
    (/\ reply.kind # "none"
     /\ body.hasMessages
     /\ body.prompt = Undef
     /\ Cardinality(UserPositions(body.messages)) >= 2)
        => AnsweredAs(SingleUserBody(body,
               body.messages[Latest(UserPositions(body.messages))].content))

PromptOnly(b) == ~b.hasMessages /\ b.prompt.t = "string"
MessagesOnly(b) == b.hasMessages /\ b.prompt = Undef

(* C14: every mock handler, of test/streaming-mocks.js, of               *)
(* test/dynamic-mocks.js and of app.test.js, accepts both request        *)
(* shapes without raising: a body with only a flat prompt string and no  *)
(* messages array is pattern-matched on that prompt, a body with only a  *)
(* messages array on its user entry.                                     *)
C14_BothShapesAccepted ==
    (reply.kind # "none" /\ (PromptOnly(body) \/ MessagesOnly(body)))
        => /\ reply.kind # "raise"
           /\ PromptOnly(body) => AnsweredAs(SingleUserBody(body, body.prompt.s))
           /\ (MessagesOnly(body) /\ Cardinality(UserPositions(body.messages)) = 1)
                => AnsweredAs(SingleUserBody(body, PromptOf(body)))

---------------------------------------------------------------------------
(* C15: if the stream was cancelled while the emitter waits, the write   *)
(* that follows is rejected and the emitter stops at that write: nothing *)
(* is enqueued by it, the chunks already emitted stay as they are, and   *)
(* the failure is surfaced as an error of the stream.                    *)
C15_SinkRejectionSurfaced ==
    [][(Emitting /\ em.sink = "cancelled")
         => /\ em'.pc = "errored"
            /\ em'.queue = em.queue
            /\ em'.sink = "errored"]_vars

---------------------------------------------------------------------------
(* the request, reply and emission of the first request, as one record *)
First == [body |-> body, reply |-> reply, em |-> em]

IsPrefix(q, full) == Len(q) <= Len(full) /\ SubSeq(full, 1, Len(q)) = q

WordChunks(str) ==
    [k \in 1..Len(split(str)) |->
        createStreamChunk(Str(split(str)[k] \o <<" ">>), FALSE, NullToolCall)]

(* the whole chunk sequence of a request that is served alone: of the   *)
(* fallback when no descriptor was selected, else of the descriptor     *)
SoloSequence(d) ==
    IF d = Undef
    THEN <<createStreamChunk(Str(S_Sorry), TRUE, NullToolCall), DoneSentinel>>
    ELSE (IF IsToolCallDescriptor(d)
          THEN <<createStreamChunk(Null, FALSE,
                     ToolCall(Get(d.o, K_tool_name),
                              JSONStringify(Get(d.o, K_tool_args))))>>
          ELSE <<>>)
         \o WordChunks(StreamedField(d).s)
         \o <<createStreamChunk(Str(<<>>), TRUE, NullToolCall), DoneSentinel>>

(* the handler is the same before and after every step that leaves it installed *)
MapNeverModified == [][handler.mock # "none" => handler' = handler]_vars

EmitsItsOwnSequence(r) ==
    r.reply.kind = "stream"
        => /\ r.em.response = Handle(handler, r.body)[2].response
           /\ r.em.pc # "errored"
           /\ IsPrefix(r.em.queue, SoloSequence(r.em.response))
           /\ r.em.pc = "closed" <=> r.em.queue = SoloSequence(r.em.response)

(* C16: two emissions that run concurrently for different requests        *)
(* against the same handler are independent: under every interleaving of *)
(* their delay points the chunks a request has got so far are the first  *)
(* chunks of the sequence it gets when served alone, and all of them     *)
(* once its stream is closed, so that no chunk of one request is in the  *)
(* other's stream; and the shared pattern map is never modified.         *)
C16_ConcurrentEmissionsIndependent ==
    /\ [](handler.mock = "streaming"
            => EmitsItsOwnSequence(First) /\ EmitsItsOwnSequence(other))
    /\ MapNeverModified

C16_Witness ==
    /\ handler.mock = "streaming"
    /\ em.pc = "delay_word"
    /\ other.em.pc = "delay_word"
    /\ IsTextDescriptor(em.response)
    /\ IsToolCallDescriptor(other.em.response)
    /\ Len(em.queue) = 3
    /\ Len(other.em.queue) = 2

(* what a chunk carries besides generated ids and timestamps *)
ContentsAndReasons(queue) ==
    [k \in 1..Len(queue) |->
        <<queue[k].kind, queue[k].content, queue[k].tool_calls, queue[k].finish_reason>>]

---------------------------------------------------------------------------
Answered == app.state = "ready" /\ app.res.status # 0

(* C18: in createApp every POST endpoint rejects a request whose         *)
(* required field (message for /chat and /chat-with-tools, prompt for    *)
(* /generate-profile) is missing or empty with status 400 and the        *)
(* matching error, and the model is not invoked for it.                  *)
C18_MissingFieldRejected ==
    (/\ Answered
     /\ app.req.parses
     /\ app.req.json.t = "object"
     /\ \/ ~HasOwn(app.req.json.o, RequiredField(app.req.endpoint))
        \/ Get(app.req.json.o, RequiredField(app.req.endpoint)) = Str(<<>>))
        => /\ app.res.status = 400
           /\ app.res.error = RequiredError(app.req.endpoint)
           /\ app.res.model = "none"

C18_Witness ==
    /\ Answered
    /\ app.req.endpoint = "/generate-profile"
    /\ app.req.json = Obj(<<<<K_prompt, Str(<<>>)>>>>)
    /\ app.res.status = 400
    /\ Len(app.calls) = 1

(* C19: in createApp a request whose body is not parseable JSON is       *)
(* answered with status 400, not 500, on every POST endpoint.            *)
C19_UnparseableBodyIs400 ==
    (Answered /\ ~app.req.parses) => app.res.status = 400

(* C20: an app built with createApp({ chatModel: mockModel }) uses mocks *)
(* only: on /chat, /chat-with-tools and /generate-profile the model      *)
(* invoked is the injected mock, never the real OpenAI model.            *)
C20_InjectedChatModelOnly ==
    (app.state = "ready" /\ app.chatModel = "mock" /\ app.objectModel = "openai")
        => \A k \in 1..Len(app.calls) : app.calls[k].model = "mock"

---------------------------------------------------------------------------
Handled == reply.kind \in {"stream", "json", "raise"}

(* C21: test isolation.  After any sequence of test cases a handler that *)
(* server.use installed during one test case is not active in a later   *)
(* one, because afterEach resets the handlers: the installed handler is  *)
(* always one of the running test case, and a request that is answered   *)
(* by a handler is answered by a handler of the running test case.       *)
C21_HandlersOfRunningTestOnly ==
    /\ handler.mock # "none" => handler.test = run.test
    /\ Handled => (handler.mock # "none" /\ handler.test = run.test)
    /\ \A t \in run.installed : t < run.test

C21_Witness ==
    /\ run.test = 2
    /\ run.installed = {0, 1}
    /\ handler.mock = "streaming"
    /\ handler.test = 2
    /\ reply.kind = "stream"
    /\ em.pc = "closed"

(* C28: a provider request that no registered handler matches is         *)
(* rejected with an error by the mock server, so that no test reaches    *)
(* the live provider API, before any server.use and after every          *)
(* resetHandlers.                                                        *)
C28_UnhandledRequestRejected ==
    /\ (handler.mock = "none" /\ reply.kind # "none") => reply.kind = "network_error"
    /\ reply.kind # "passthrough"

---------------------------------------------------------------------------
(* a streamed request that no pattern matched *)
FallbackRun == Streamed /\ body.stream /\ em.response = Undef

(* C22 as stated: the fallback reply is emitted as a Text descriptor with *)
(* content 'Sorry, I cannot help with that.' would be, word by word with  *)
(* finish_reason null and then a separate finish marker without text.     *)
C22_FallbackAsTextDescriptor ==
    (FallbackRun /\ em.pc = "closed")
        => em.queue = SoloSequence(TextDescriptor(Str(S_Sorry)))

(* C22, amended: the fallback reply is closed as soon as it is built and  *)
(* is one data chunk that carries the whole text 'Sorry, I cannot help    *)
(* with that.' together with finish_reason 'stop', followed by the        *)
(* sentinel; it has no text-delta chunk and no separate finish marker.    *)
C22_FallbackOneChunk ==
    FallbackRun
        => /\ em.pc = "closed"
           /\ Len(em.queue) = 2
           /\ em.queue[1].content = Str(S_Sorry)
           /\ em.queue[1].finish_reason = Str(S_stop)
           /\ em.queue[1].tool_calls = <<>>
           /\ em.queue[2] = DoneSentinel
           /\ Positions(em.queue, IsTextDelta) = {}

C22_Witness ==
    /\ FallbackRun
    /\ handler.responses = WeatherMap
    /\ PromptOf(body) = <<"a">>
    /\ Len(em.queue) = 2

---------------------------------------------------------------------------
OrEmpty(v) == IF v.t = "string" THEN v ELSE Str(<<>>)

(* the descriptor with the empty string in place of each missing field *)
WithDefaults(d) ==
    IF IsTextDescriptor(d) THEN TextDescriptor(OrEmpty(Get(d.o, K_content)))
    ELSE ToolCallDescriptor(OrEmpty(Get(d.o, K_tool_name)), Get(d.o, K_tool_args),
                            OrEmpty(Get(d.o, K_final_response)))

Malformed(e) == e.response # Undef /\ ~WellFormed(e.response)
Terminated(e) == e.pc \in {"closed", "errored"}

(* policy 1: the missing field counts as '' and the sequence is completed *)
Substituted(e) == e.pc = "closed" /\ e.queue = SoloSequence(WithDefaults(e.response))

(* policy 2: an error is signalled before anything is emitted *)
SignalledBeforeEmitting(e) == e.pc = "errored" /\ e.queue = <<>>

(* C23: malformed descriptors are handled by one policy.  An emission    *)
(* for a Text without content, a ToolCall without tool_name or a         *)
(* ToolCall without final_response ends either with the empty string in  *)
(* place of the missing field and a complete sequence, or with an error  *)
(* signalled before anything is emitted, and two such emissions end the  *)
(* same way.                                                             *)
C23_OneMalformedPolicy ==
    /\ (Malformed(em) /\ Terminated(em))
          => (Substituted(em) \/ SignalledBeforeEmitting(em))
    /\ (Malformed(em) /\ Terminated(em) /\ Malformed(other.em) /\ Terminated(other.em))
          => \/ Substituted(em) /\ Substituted(other.em)
             \/ SignalledBeforeEmitting(em) /\ SignalledBeforeEmitting(other.em)

---------------------------------------------------------------------------
(* C24: cancellation.  Once the consumer has cancelled the stream the    *)
(* emission loop notices it at or before its next delay point and        *)
(* attempts no further enqueue: no state is reachable in which the       *)
(* emitter has been rejected by an enqueue into the cancelled stream.    *)
C24_NoEnqueueAfterCancel ==
    (Streamed /\ WellFormed(em.response) /\ em.sink = "cancelled")
        => em.pc # "errored"

---------------------------------------------------------------------------
(* the stream is closed and its last two frames are the finish marker *)
(* and the sentinel                                                   *)
ClosedInOrder(e) ==
    /\ e.pc = "closed"
    /\ e.sink = "closed"
    /\ Len(e.queue) >= 2
    /\ IsFinishMarker(e.queue[Len(e.queue) - 1])
    /\ e.queue[Len(e.queue)] = DoneSentinel

(* C25: termination.  For every well-formed Text or ToolCall descriptor  *)
(* and for the fallback, if every delay elapses and the stream stays     *)
(* readable, the emission eventually enqueues the finish marker, then    *)
(* the sentinel, and closes the stream; and nothing is enqueued after    *)
(* the close.                                                            *)
C25_EmissionTerminates ==
    /\ (Streamed /\ body.stream /\ WellFormed(em.response)) ~> ClosedInOrder(em)
    /\ [][em.pc = "closed" => (em' = em \/ em' = NoEmission)]_vars

C25_Witness ==
    /\ Streamed
    /\ IsToolCallDescriptor(em.response)
    /\ ClosedInOrder(em)
    /\ Len(em.queue) = 5

---------------------------------------------------------------------------
Injected(e) == e.NODE_ENV = "test" /\ e.testModel # "undefined"

(* C26: in src/app.js, whenever NODE_ENV is 'test' and global.testModel  *)
(* is set, every call that /chat, /chat-with-tools or /generate-profile  *)
(* makes to the AI SDK passes global.testModel, never openai('gpt-4o').  *)
C26_InjectionCoversEveryEndpoint ==
    [][(app.state = "app.js" /\ Injected(env) /\ app'.calls # app.calls)
          => app'.calls[Len(app'.calls)].model = env.testModel]_vars

---------------------------------------------------------------------------
(* the reply and the emission started for request b by the installed mock *)
(* as the given file defines it                                           *)
HandledBy(file, b) == Handle([handler EXCEPT !.file = file], b)

(* C27: the createStreamingOpenAIMock copied into app.test.js is          *)
(* equivalent to the one of test/streaming-mocks.js: for every pattern    *)
(* map and every request body that holds a messages array, with or        *)
(* without a prompt field, both select the same descriptor and start the  *)
(* same chunk sequence.                                                   *)
C27_CopyEquivalent ==
    (handler.mock = "streaming" /\ reply.kind # "none" /\ body.hasMessages)
        => HandledBy("test", body) = HandledBy("app.test", body)

---------------------------------------------------------------------------
FinishEnqueued(e) == Positions(e.queue, IsFinishMarker) # {}

IsSentinel(chunk) == chunk = DoneSentinel

SentinelEnqueued(e) == Positions(e.queue, IsSentinel) # {}

(* C29: in every streamed reply the finish marker, the 'data: [DONE]'    *)
(* sentinel and the close of the stream are one step: the emitter is     *)
(* suspended only right after the tool-call chunk and right after a      *)
(* text-delta chunk, and no state has the finish marker enqueued without *)
(* the sentinel enqueued and the stream closed.                          *)
C29_FinishSentinelCloseAtomic ==
    Streamed =>
        /\ FinishEnqueued(em) <=> SentinelEnqueued(em)
        /\ FinishEnqueued(em) <=> em.pc = "closed"
        /\ em.pc = "closed" => em.sink = "closed"
        /\ em.pc = "delay_tool" => IsToolCallChunk(em.queue[Len(em.queue)])
        /\ em.pc = "delay_word" => IsTextDelta(em.queue[Len(em.queue)])
        /\ em.pc \in {"delay_tool", "delay_word", "closed", "errored"}

C29_Witness ==
    /\ Streamed
    /\ IsToolCallDescriptor(em.response)
    /\ em.pc = "closed"
    /\ ClosedInOrder(em)
    /\ Positions(em.queue, IsTextDelta) # {}

---------------------------------------------------------------------------
(* the entry the loop visits first among those whose pattern the prompt *)
(* contains has the empty pattern                                       *)
EmptyPatternComesFirst(m, prompt) ==
    LET entries == ObjectEntries(m) IN
    /\ MatchingEntries(entries, prompt) # {}
    /\ entries[Earliest(MatchingEntries(entries, prompt))][1] = <<>>

VisitedFirst(m, prompt) ==
    ObjectEntries(m)[Earliest(MatchingEntries(ObjectEntries(m), prompt))][2]

(* C30: the empty pattern matches every prompt, the empty prompt and a   *)
(* request without user message included: in both mocks the entry with   *)
(* pattern '' is selected whenever no entry before it matches, so that   *)
(* no entry after it and no fallback answers the request.                *)
C30_EmptyPatternMatchesAll ==
    (/\ body.hasMessages
     /\ Streamed \/ (handler.mock = "dynamic" /\ reply.kind = "json")
     /\ EmptyPatternComesFirst(handler.responses, PromptOf(body)))
        => IF handler.mock = "dynamic"
           THEN reply.arguments
                  = JSONStringify(VisitedFirst(handler.responses, PromptOf(body)))
           ELSE em.response = VisitedFirst(handler.responses, PromptOf(body))

====
